---------------------------- MODULE Spec2Model ----------------------------
(***************************************************************************)
(* Model of src/main.py: a FastAPI blogging service with cookie sessions   *)
(* (signed JWT), bcrypt password hashes and per-post ownership checks over *)
(* a SQLite store (tables users and posts).                                *)
(*                                                                         *)
(* Each handler is an operator from the request and the tables it reads to *)
(* its status and the table it writes.  Spec serves requests one after the *)
(* other: one action per handler, applying that operator.                  *)
(*                                                                         *)
(* Sync FastAPI handlers run on a thread pool, each with its own           *)
(* SessionLocal().  A handler that reads and then commits (signup,         *)
(* update_post, delete_post) is therefore two database steps with other    *)
(* requests' steps possibly in between: the *_query action is the handler  *)
(* up to its last SELECT, the *_commit action is its flush + COMMIT and    *)
(* the response.  SpecSignupRace interleaves the steps of signup requests, *)
(* SpecPostRace those of requests on the posts of two signed-up users.     *)
(* The session resolver's SELECT is folded into the handler's first step:  *)
(* users are never deleted or changed, so its result does not depend on    *)
(* when it runs within the request.                                        *)
(***************************************************************************)
EXTENDS Integers, Sequences, FiniteSets, TLC

\* ------------------------------------------------------------------ bounds

\* create_post is not offered once the next row id would exceed MaxPosts.
MaxPosts == 1

\* Request inputs.
Emails    == {"a@x.com", "b@x.com"}
Passwords == {"p", "q"}
Salts     == {"s1"}
Titles    == {"t1", "t2"}
Contents  == {"c1", "c2"}

\* Worker threads of the server's thread pool that may hold a request.
Threads == {"w1", "w2"}

\* ------------------------------------------------------------ configuration

SECRET_KEY == "education_demo_secret_key"
OTHER_KEY  == "some_other_key"

\* ------------------------------------------------------------------- state

VARIABLES
    users,         \* table users: users[i] is the row with id i
    posts,         \* table posts: a function from the ids of the stored rows
    thr,           \* per worker thread: the request it holds between query and commit
    issued,        \* history: the tokens login has set, each with the user it was set for
    resp           \* what the last step answered (status 0: request still running)

vars == <<users, posts, thr, issued, resp>>

\* ----------------------------------------------------------------- strings

\* str(db_user.id) for the ids the model reaches.
Digits == <<"1", "2", "3", "4", "5", "6", "7", "8", "9">>

str(n) == Digits[n]

\* SQLite compares the INTEGER column users.id with a TEXT parameter by
\* converting the text to an integer when it is a well-formed numeric
\* literal ('1' and '01' both become 1); any other text equals no integer.
\* 0 stands for "no integer".
sqlite_integer(text) ==
    IF \E n \in 1..Len(Digits) : text \in {Digits[n], "0" \o Digits[n]}
    THEN CHOOSE n \in 1..Len(Digits) : text \in {Digits[n], "0" \o Digits[n]}
    ELSE 0

\* --------------------------------------------------------------- passwords

\* pwd_context.hash(password): bcrypt with a fresh random salt.
pwd_context_hash(password, salt) == [salt |-> salt, digest_of |-> password]

\* pwd_context.verify(password, hashed_password)
pwd_context_verify(password, hashed) == hashed.digest_of = password

\* ------------------------------------------------------------------ tokens

\* A cookie header as the server sees it.  kind "absent": no cookie (None);
\* "empty": the empty string; "malformed": a string that is no JWT;
\* "jwt": a JWT signed with key, whose payload has a "sub" or not.
Cookie(kind, key, has_sub, sub) ==
    [kind |-> kind, key |-> key, has_sub |-> has_sub, sub |-> sub]

NoCookie == Cookie("absent", "", FALSE, "")

SubValues == {str(n) : n \in 1..3} \cup {"01", "abc"}

CookieValues ==
    {NoCookie, Cookie("empty", "", FALSE, ""), Cookie("malformed", "", FALSE, "")}
    \cup {Cookie("jwt", SECRET_KEY, TRUE, s) : s \in SubValues}
    \cup {Cookie("jwt", SECRET_KEY, FALSE, ""), Cookie("jwt", OTHER_KEY, TRUE, str(1))}

\* Mutant: Tokens signed with a key other than the one jwt.decode is given.
create_access_token_other_key(sub) == Cookie("jwt", OTHER_KEY, TRUE, sub)

\* jwt.encode(to_encode, SECRET_KEY, algorithm=ALGORITHM) on {"sub": sub}
create_access_token(sub) == Cookie("jwt", SECRET_KEY, TRUE, sub)

\* `not access_token`
falsy(cookie) == cookie.kind \in {"absent", "empty"}

\* jwt.decode(access_token, SECRET_KEY, algorithms=[ALGORITHM]): JWTError for
\* a string that is no JWT or whose signature does not verify.
jwt_decode(cookie) ==
    IF cookie.kind = "jwt" /\ cookie.key = SECRET_KEY
    THEN [error |-> FALSE, has_sub |-> cookie.has_sub, sub |-> cookie.sub]
    ELSE [error |-> TRUE, has_sub |-> FALSE, sub |-> ""]

\* ------------------------------------------------------------------ queries

\* db.query(User).filter(User.email == email).first(): the row id, 0 for None
query_user_by_email(db_users, email) ==
    IF \E i \in 1..Len(db_users) : db_users[i].email = email
    THEN CHOOSE i \in 1..Len(db_users) : db_users[i].email = email
    ELSE 0

\* db.query(User).filter(User.id == user_id).first() with user_id the token's
\* "sub" string: the row id, 0 for None
query_user_by_id(db_users, user_id) ==
    IF sqlite_integer(user_id) \in 1..Len(db_users) THEN sqlite_integer(user_id) ELSE 0

\* db.query(Post).filter(Post.id == post_id).first() is not None
post_exists(db_posts, post_id) == post_id \in DOMAIN db_posts

\* ---------------------------------------------------------- session resolver

\* Mutant: The resolver without `if not user`: any signed subject is a user.
get_current_user_no_lookup(cookie, db_users) ==
    IF falsy(cookie) THEN [status |-> 401, user |-> 0]
    ELSE LET payload == jwt_decode(cookie) IN
         IF payload.error \/ ~payload.has_sub \/ sqlite_integer(payload.sub) = 0
         THEN [status |-> 401, user |-> 0]
         ELSE [status |-> 200, user |-> sqlite_integer(payload.sub)]

\* get_current_user: [status |-> 401] or [status |-> 200, user |-> id]
get_current_user(cookie, db_users) ==
    IF falsy(cookie) THEN [status |-> 401, user |-> 0]
    ELSE LET payload == jwt_decode(cookie) IN
         IF payload.error THEN [status |-> 401, user |-> 0]
         ELSE IF ~payload.has_sub THEN [status |-> 401, user |-> 0]
         ELSE LET user == query_user_by_id(db_users, payload.sub) IN
              IF user = 0 THEN [status |-> 401, user |-> 0]
              ELSE [status |-> 200, user |-> user]

\* Mutant: The optional resolver reading the claims without verifying the signature.
get_current_user_optional_unverified(cookie, db_users) ==
    IF cookie.kind = "jwt" /\ cookie.has_sub THEN query_user_by_id(db_users, cookie.sub) ELSE 0

\* get_current_user_optional: the user's id, 0 for None.  A payload without
\* "sub" makes the filter `users.id IS NULL`, which no row satisfies.
get_current_user_optional(cookie, db_users) ==
    IF falsy(cookie) THEN 0
    ELSE LET payload == jwt_decode(cookie) IN
         IF payload.error THEN 0
         ELSE IF payload.has_sub THEN query_user_by_id(db_users, payload.sub)
         ELSE 0

\* ------------------------------------------------------------ store helpers

\* A row of table users / posts.
User(email, hashed_password) == [email |-> email, hashed_password |-> hashed_password]

Post(title, content, owner_id) == [title |-> title, content |-> content, owner_id |-> owner_id]

\* Mutant: users.email declared without unique=True.
email_unique_undeclared(db_users, email) == TRUE

\* The UNIQUE index on users.email admits a row with this email.
email_unique(db_users, email) == \A i \in 1..Len(db_users) : db_users[i].email # email

Max(S) == CHOOSE m \in S : \A x \in S : x <= m

\* The id SQLite gives an inserted post: INTEGER PRIMARY KEY without
\* AUTOINCREMENT is the largest rowid in the table plus one, so the id of a
\* deleted last row is given out again.
next_post_id(db_posts) == IF DOMAIN db_posts = {} THEN 1 ELSE Max(DOMAIN db_posts) + 1

\* Mutant: The ownership check left out.
not_owner_unchecked(post, user) == FALSE

\* existing_post.owner_id != current_user.id
not_owner(post, user) == post.owner_id # user

\* The value the unit of work writes for a column on flush: an attribute set
\* to the value it was loaded with has no net change and is left out of the
\* UPDATE.
NoChange == "<no change>"

net_change(loaded, assigned) == IF assigned = loaded THEN NoChange ELSE assigned

\* ----------------------------------------------------------------- requests

NoHash == [salt |-> "", digest_of |-> ""]

\* What a worker thread holds between a handler's query and its commit.
\* overwrites is a history flag of an update_post request: another
\* update_post request on the same post has committed, after this one read
\* the post, a title or content other than the one this request will write
\* to that column.
Idle ==
    [pc |-> "idle", email |-> "", hashed_password |-> NoHash, post_id |-> 0,
     title |-> NoChange, content |-> NoChange, overwrites |-> FALSE]

\* What a step answered: the handler, the HTTP status (0 while the request
\* is still running), the user the home page was rendered for (0 for None),
\* the cookie a login response sets, and for a successful update_post
\* whether it overwrote another request's write.
Resp(op, status) ==
    [op |-> op, status |-> status, user |-> 0, set_cookie |-> NoCookie, lost_update |-> FALSE]

\* The post ids requests name: those the table can hold and one beyond.
PostIds == 1..(MaxPosts + 1)

\* Session cookies of the first two users and no cookie: what the requests
\* of the interleaved specification present.
RaceCookies == {NoCookie} \cup {create_access_token(str(n)) : n \in 1..2}

\* ------------------------------------------------------- database writes

\* db.add(new_user); db.commit(): the INSERT fails with IntegrityError (an
\* unhandled exception, status 500) when the email is in the table.
insert_user(db_users, email, hashed_password) ==
    IF email_unique(db_users, email)
    THEN [status |-> 200, users |-> Append(db_users, User(email, hashed_password))]
    ELSE [status |-> 500, users |-> db_users]

\* db.add(new_post); db.commit(); db.refresh(new_post)
insert_post(db_posts, title, content, owner_id) ==
    [id \in DOMAIN db_posts \cup {next_post_id(db_posts)} |->
        IF id \in DOMAIN db_posts THEN db_posts[id] ELSE Post(title, content, owner_id)]

\* existing_post.title = post.title; existing_post.content = post.content:
\* the request as the session holds it until the commit.
assign_post(post_id, existing_post, title, content) ==
    [Idle EXCEPT !.pc = "update_post", !.post_id = post_id,
                 !.title = net_change(existing_post.title, title),
                 !.content = net_change(existing_post.content, content)]

\* Mutant: The UPDATE writing a fresh row that has lost its owner.
updated_row_no_owner(row, req) ==
    Post(IF req.title # NoChange THEN req.title ELSE row.title,
         IF req.content # NoChange THEN req.content ELSE row.content,
         0)

\* The row an UPDATE of the changed columns leaves.
updated_row(row, req) ==
    Post(IF req.title # NoChange THEN req.title ELSE row.title,
         IF req.content # NoChange THEN req.content ELSE row.content,
         row.owner_id)

\* db.commit() of update_post and the response.  With no net change no
\* UPDATE is sent and the response reloads the expired row, failing if it is
\* gone; an UPDATE that matches no row raises StaleDataError; an UPDATE that
\* matches is committed whatever the row holds by now.
flush_update(db_posts, req) ==
    IF post_exists(db_posts, req.post_id)
    THEN [status |-> 200, posts |-> [db_posts EXCEPT ![req.post_id] = updated_row(@, req)]]
    ELSE [status |-> 500, posts |-> db_posts]

\* db.delete(post); db.commit(): DELETE ... WHERE posts.id = ?; a DELETE
\* that matches no row is only warned about.
flush_delete(db_posts, post_id) == [id \in DOMAIN db_posts \ {post_id} |-> db_posts[id]]

\* ------------------------------------------------------- handler decisions

\* update_post before it touches the row: the status it fails with, 0 if it
\* goes on.
update_post_check(cookie, post_id, db_users, db_posts) ==
    LET current_user == get_current_user(cookie, db_users) IN
    IF current_user.status # 200 THEN 401
    ELSE IF ~post_exists(db_posts, post_id) THEN 404
    ELSE IF not_owner(db_posts[post_id], current_user.user) THEN 403
    ELSE 0

\* Mutant: delete_post looking the post up before the session.
delete_post_check_lookup_first(cookie, post_id, db_users, db_posts) ==
    LET current_user == get_current_user(cookie, db_users) IN
    IF ~post_exists(db_posts, post_id) THEN 404
    ELSE IF current_user.status # 200 THEN 401
    ELSE IF not_owner(db_posts[post_id], current_user.user) THEN 403
    ELSE 0

\* delete_post before it touches the row.
delete_post_check(cookie, post_id, db_users, db_posts) ==
    LET current_user == get_current_user(cookie, db_users) IN
    IF current_user.status # 200 THEN 401
    ELSE IF ~post_exists(db_posts, post_id) THEN 404
    ELSE IF not_owner(db_posts[post_id], current_user.user) THEN 403
    ELSE 0

\* ------------------------------------------------------------- handlers
\* Each handler as what it answers and what it leaves in the table it
\* writes, given the request and the tables it reads.

\* Mutant: signup without the lookup of the email.
signup_no_lookup(email, password, salt, db_users) ==
    insert_user(db_users, email, pwd_context_hash(password, salt))

signup(email, password, salt, db_users) ==
    IF query_user_by_email(db_users, email) # 0
    THEN [status |-> 400, users |-> db_users]
    ELSE insert_user(db_users, email, pwd_context_hash(password, salt))

\* Mutant: login without `not pwd_context.verify(...)`.
login_any_password(email, password, db_users) ==
    LET db_user == query_user_by_email(db_users, email) IN
    IF db_user = 0
    THEN [status |-> 401, user |-> 0, set_cookie |-> NoCookie]
    ELSE [status |-> 200, user |-> db_user, set_cookie |-> create_access_token(str(db_user))]

\* set_cookie is the token of response.set_cookie, NoCookie if none is set.
login(email, password, db_users) ==
    LET db_user == query_user_by_email(db_users, email) IN
    IF db_user = 0 \/ ~pwd_context_verify(password, db_users[db_user].hashed_password)
    THEN [status |-> 401, user |-> 0, set_cookie |-> NoCookie]
    ELSE [status |-> 200, user |-> db_user, set_cookie |-> create_access_token(str(db_user))]

\* user is the "user" the template is rendered with.
read_root(cookie, db_users) ==
    [status |-> 200, user |-> get_current_user_optional(cookie, db_users)]

create_post(cookie, title, content, db_users, db_posts) ==
    LET current_user == get_current_user(cookie, db_users) IN
    IF current_user.status # 200
    THEN [status |-> 401, posts |-> db_posts]
    ELSE [status |-> 200, posts |-> insert_post(db_posts, title, content, current_user.user)]

update_post(cookie, post_id, title, content, db_users, db_posts) ==
    LET failed == update_post_check(cookie, post_id, db_users, db_posts) IN
    IF failed # 0
    THEN [status |-> failed, posts |-> db_posts]
    ELSE flush_update(db_posts, assign_post(post_id, db_posts[post_id], title, content))

delete_post(cookie, post_id, db_users, db_posts) ==
    LET failed == delete_post_check(cookie, post_id, db_users, db_posts) IN
    IF failed # 0
    THEN [status |-> failed, posts |-> db_posts]
    ELSE [status |-> 200, posts |-> flush_delete(db_posts, post_id)]

\* ---------------------------------------------- requests, one step each

Signup ==
    \E e \in Emails, p \in Passwords, s \in Salts :
        LET done == signup(e, p, s, users) IN
        /\ users' = done.users
        /\ resp' = Resp("signup", done.status)
        /\ UNCHANGED <<posts, thr, issued>>

Login ==
    \E e \in Emails, p \in Passwords :
        LET done == login(e, p, users) IN
        /\ resp' = [Resp("login", done.status) EXCEPT !.set_cookie = done.set_cookie]
        /\ issued' = IF done.status = 200
                     THEN issued \cup {[token |-> done.set_cookie, user |-> done.user]}
                     ELSE issued
        /\ UNCHANGED <<users, posts, thr>>

\* response.delete_cookie("access_token"): nothing on the server changes.
Logout ==
    /\ resp' = Resp("logout", 200)
    /\ UNCHANGED <<users, posts, thr, issued>>

ReadRoot ==
    \E c \in CookieValues :
        LET done == read_root(c, users) IN
        /\ resp' = [Resp("read_root", done.status) EXCEPT !.user = done.user]
        /\ UNCHANGED <<users, posts, thr, issued>>

\* create_post with cookies from a set.
create_post_from(cookies) ==
    \E c \in cookies, t \in Titles, b \in Contents :
        LET done == create_post(c, t, b, users, posts) IN
        /\ done.status = 200 => next_post_id(posts) <= MaxPosts
        /\ posts' = done.posts
        /\ resp' = Resp("create_post", done.status)
        /\ UNCHANGED <<users, thr, issued>>

CreatePost == create_post_from(CookieValues)

UpdatePost ==
    \E c \in CookieValues, id \in PostIds, t \in Titles, b \in Contents :
        LET done == update_post(c, id, t, b, users, posts) IN
        /\ posts' = done.posts
        /\ resp' = Resp("update_post", done.status)
        /\ UNCHANGED <<users, thr, issued>>

DeletePost ==
    \E c \in CookieValues, id \in PostIds :
        LET done == delete_post(c, id, users, posts) IN
        /\ posts' = done.posts
        /\ resp' = Resp("delete_post", done.status)
        /\ UNCHANGED <<users, thr, issued>>

\* ------------------------------------- handlers, query and commit apart

\* signup up to hashing the password.
signup_query(w, email, password, salt) ==
    /\ thr[w].pc = "idle"
    /\ IF query_user_by_email(users, email) # 0
       THEN /\ resp' = Resp("signup", 400)
            /\ UNCHANGED thr
       ELSE /\ thr' = [thr EXCEPT ![w] = [Idle EXCEPT !.pc = "signup", !.email = email,
                           !.hashed_password = pwd_context_hash(password, salt)]]
            /\ resp' = Resp("signup", 0)
    /\ UNCHANGED <<users, posts, issued>>

signup_commit(w) ==
    /\ thr[w].pc = "signup"
    /\ LET done == insert_user(users, thr[w].email, thr[w].hashed_password) IN
       /\ users' = done.users
       /\ resp' = Resp("signup", done.status)
    /\ thr' = [thr EXCEPT ![w] = Idle]
    /\ UNCHANGED <<posts, issued>>

\* update_post up to the assignments to existing_post.
update_post_query(w, cookie, post_id, title, content) ==
    /\ thr[w].pc = "idle"
    /\ LET failed == update_post_check(cookie, post_id, users, posts) IN
       IF failed # 0
       THEN /\ resp' = Resp("update_post", failed)
            /\ UNCHANGED thr
       ELSE /\ thr' = [thr EXCEPT ![w] = assign_post(post_id, posts[post_id], title, content)]
            /\ resp' = Resp("update_post", 0)
    /\ UNCHANGED <<users, posts, issued>>

\* Another running update_post request whose write the commit of req hides.
conflicts(other, req) ==
    /\ other.pc = "update_post"
    /\ other.post_id = req.post_id
    /\ \/ req.title # NoChange /\ other.title # NoChange /\ other.title # req.title
       \/ req.content # NoChange /\ other.content # NoChange /\ other.content # req.content

\* Mutant: update_post with an optimistic check: 409 when the row was written by
\* another request since this one read it.
update_post_commit_checked(w) ==
    /\ thr[w].pc = "update_post"
    /\ LET req == thr[w]
           done == IF req.overwrites THEN [status |-> 409, posts |-> posts]
                   ELSE flush_update(posts, req)
       IN /\ posts' = done.posts
          /\ resp' = Resp("update_post", done.status)
          /\ thr' = [v \in Threads |->
                        IF v = w THEN Idle
                        ELSE IF done.status = 200 /\ conflicts(thr[v], req)
                             THEN [thr[v] EXCEPT !.overwrites = TRUE]
                             ELSE thr[v]]
    /\ UNCHANGED <<users, issued>>

update_post_commit(w) ==
    /\ thr[w].pc = "update_post"
    /\ LET req == thr[w]
           done == flush_update(posts, req)
       IN /\ posts' = done.posts
          /\ resp' = [Resp("update_post", done.status)
                         EXCEPT !.lost_update = (done.status = 200 /\ req.overwrites)]
          /\ thr' = [v \in Threads |->
                        IF v = w THEN Idle
                        ELSE IF done.status = 200 /\ conflicts(thr[v], req)
                             THEN [thr[v] EXCEPT !.overwrites = TRUE]
                             ELSE thr[v]]
    /\ UNCHANGED <<users, issued>>

\* delete_post up to db.delete(post).
delete_post_query(w, cookie, post_id) ==
    /\ thr[w].pc = "idle"
    /\ LET failed == delete_post_check(cookie, post_id, users, posts) IN
       IF failed # 0
       THEN /\ resp' = Resp("delete_post", failed)
            /\ UNCHANGED thr
       ELSE /\ thr' = [thr EXCEPT ![w] = [Idle EXCEPT !.pc = "delete_post", !.post_id = post_id]]
            /\ resp' = Resp("delete_post", 0)
    /\ UNCHANGED <<users, posts, issued>>

delete_post_commit(w) ==
    /\ thr[w].pc = "delete_post"
    /\ posts' = flush_delete(posts, thr[w].post_id)
    /\ resp' = Resp("delete_post", 200)
    /\ thr' = [v \in Threads |->
                  IF v = w THEN Idle
                  ELSE IF thr[v].pc = "update_post" /\ thr[v].post_id = thr[w].post_id
                       THEN [thr[v] EXCEPT !.overwrites = FALSE]
                       ELSE thr[v]]
    /\ UNCHANGED <<users, issued>>

\* ------------------------------------------------------------ specification

\* Base.metadata.create_all on a fresh test.db: both tables empty.
Init ==
    /\ users = <<>>
    /\ posts = <<>>
    /\ thr = [w \in Threads |-> Idle]
    /\ issued = {}
    /\ resp = Resp("none", 0)

\* Requests served one after the other.
Next ==
    \/ Signup
    \/ Login
    \/ Logout
    \/ ReadRoot
    \/ CreatePost
    \/ UpdatePost
    \/ DeletePost

Spec == Init /\ [][Next]_vars

SignupQuery == \E w \in Threads, e \in Emails, p \in Passwords, s \in Salts : signup_query(w, e, p, s)

SignupCommit == \E w \in Threads : signup_commit(w)

\* signup requests served by the thread pool at once.
NextSignupRace ==
    \/ SignupQuery
    \/ SignupCommit
    \/ Login

SpecSignupRace == Init /\ [][NextSignupRace]_vars

\* The store after two signups: the users whose requests race on the posts.
InitTwoUsers ==
    /\ users = <<User("a@x.com", pwd_context_hash("p", "s1")),
                 User("b@x.com", pwd_context_hash("q", "s1"))>>
    /\ posts = <<>>
    /\ thr = [w \in Threads |-> Idle]
    /\ issued = {}
    /\ resp = Resp("none", 0)

RaceCreatePost == create_post_from(RaceCookies)

UpdatePostQuery ==
    \E w \in Threads, c \in RaceCookies, id \in PostIds, t \in Titles, b \in Contents :
        update_post_query(w, c, id, t, b)

UpdatePostCommit == \E w \in Threads : update_post_commit(w)

DeletePostQuery == \E w \in Threads, c \in RaceCookies, id \in PostIds : delete_post_query(w, c, id)

DeletePostCommit == \E w \in Threads : delete_post_commit(w)

\* Requests on the posts served by the thread pool at once.
NextPostRace ==
    \/ RaceCreatePost
    \/ UpdatePostQuery
    \/ UpdatePostCommit
    \/ DeletePostQuery
    \/ DeletePostCommit

SpecPostRace == InitTwoUsers /\ [][NextPostRace]_vars

\* ------------------------------------------------------------------ claims

\* The cookie carries a session: a JWT signed with the server's key whose
\* subject names the id of a stored user.
ValidSession(cookie) ==
    /\ cookie.kind = "jwt"
    /\ cookie.key = SECRET_KEY
    /\ cookie.has_sub
    /\ \E i \in 1..Len(users) : cookie.sub \in {str(i), "0" \o str(i)}

\* The id of the stored user a valid session names.
SessionUser(cookie) == CHOOSE i \in 1..Len(users) : cookie.sub \in {str(i), "0" \o str(i)}

\* C1: in every reachable store, an update_post or delete_post request on a
\* stored post whose session resolves to a user other than the post's owner
\* is answered 403, and the post is still stored with the same title,
\* content and owner_id.
C1_NonOwnerForbidden ==
    \A c \in CookieValues, id \in DOMAIN posts :
        (ValidSession(c) /\ posts[id].owner_id # SessionUser(c))
        => /\ \A t \in Titles, b \in Contents :
                 LET done == update_post(c, id, t, b, users, posts) IN
                 done.status = 403 /\ id \in DOMAIN done.posts /\ done.posts[id] = posts[id]
           /\ LET done == delete_post(c, id, users, posts) IN
              done.status = 403 /\ id \in DOMAIN done.posts /\ done.posts[id] = posts[id]

\* C1: a non-owner's update_post was answered 403 while both users exist.
C1_Witness == resp.op = "update_post" /\ resp.status = 403 /\ Len(users) = 2

\* C2: a signup whose email is the email of a stored user is answered 400
\* and leaves the users table as it was; no signup step touches the posts.
C2_DuplicateEmailRejected ==
    /\ [](\A e \in Emails, p \in Passwords, s \in Salts :
             (\E i \in 1..Len(users) : users[i].email = e)
             => signup(e, p, s, users) = [status |-> 400, users |-> users])
    /\ [][resp'.op = "signup" /\ resp'.status = 400 => users' = users /\ posts' = posts]_vars

\* C2: a signup was answered 400.
C2_Witness == resp.op = "signup" /\ resp.status = 400

\* C3: no two stored users have the same email, also when signup requests
\* for one email have both looked the email up before either commits.
C3_EmailsUnique ==
    \A i, j \in 1..Len(users) : users[i].email = users[j].email => i = j

\* C3: the second of two interleaved signups for one email reached its
\* commit: the INSERT failed on the unique index.
C3_Witness == resp.op = "signup" /\ resp.status = 500

\* C4: get_current_user answers 401 exactly when the cookie carries no
\* valid session and otherwise returns the stored user the subject names;
\* create_post, update_post and delete_post without a valid session are
\* answered 401 and leave the posts as they were.
C4_StrictResolver ==
    \A c \in CookieValues :
        /\ get_current_user(c, users) =
               IF ValidSession(c) THEN [status |-> 200, user |-> SessionUser(c)]
               ELSE [status |-> 401, user |-> 0]
        /\ ~ValidSession(c)
           => \A id \in PostIds, t \in Titles, b \in Contents :
                 /\ create_post(c, t, b, users, posts) = [status |-> 401, posts |-> posts]
                 /\ update_post(c, id, t, b, users, posts) = [status |-> 401, posts |-> posts]
                 /\ delete_post(c, id, users, posts) = [status |-> 401, posts |-> posts]

\* C4: create_post was answered 401 while a user and a post are stored.
C4_Witness ==
    resp.op = "create_post" /\ resp.status = 401 /\ Len(users) > 0 /\ DOMAIN posts # {}

\* C5: get_current_user_optional returns None exactly where get_current_user
\* answers 401 and the same user otherwise, and the home page is always
\* rendered.
C5_OptionalMatchesStrict ==
    /\ \A c \in CookieValues :
          /\ get_current_user_optional(c, users) =
                 IF get_current_user(c, users).status = 401 THEN 0
                 ELSE get_current_user(c, users).user
          /\ read_root(c, users).status = 200
    /\ resp.op = "read_root" => resp.status = 200 /\ resp.user \in 0..Len(users)

\* C5: the home page was rendered without a user while users are stored,
\* and so for a cookie the strict resolver refuses.
C5_Witness == resp.op = "read_root" /\ resp.status = 200 /\ resp.user = 0 /\ Len(users) = 2

\* C6: every stored post's owner_id is the id of a stored user; an inserted
\* post's owner_id is the user get_current_user returned for the create_post
\* request; no step changes the owner_id of a post that stays stored.
C6_OwnerFixed ==
    /\ [](\A id \in DOMAIN posts : posts[id].owner_id \in 1..Len(users))
    /\ [](\A c \in CookieValues, t \in Titles, b \in Contents :
             LET done == create_post(c, t, b, users, posts) IN
             done.posts # posts
             => /\ get_current_user(c, users).status = 200
                /\ DOMAIN done.posts = DOMAIN posts \cup {next_post_id(posts)}
                /\ done.posts[next_post_id(posts)].owner_id = get_current_user(c, users).user)
    /\ [][\A id \in DOMAIN posts \cap DOMAIN posts' :
             posts'[id].owner_id = posts[id].owner_id]_vars

\* C6: the second user's post has been updated.
C6_Witness ==
    /\ resp.op = "update_post" /\ resp.status = 200
    /\ \E id \in DOMAIN posts : posts[id].owner_id = 2

\* The status update_post and delete_post are to answer: 401 before 404
\* before 403, 200 otherwise.
C7_Expected(cookie, post_id) ==
    IF ~ValidSession(cookie) THEN 401
    ELSE IF post_id \notin DOMAIN posts THEN 404
    ELSE IF posts[post_id].owner_id # SessionUser(cookie) THEN 403
    ELSE 200

\* C7: update_post and delete_post answer 401 without a valid session
\* whatever the post id, else 404 for an id not stored whoever the user,
\* else 403 for another user's post; each of the three leaves the store as
\* it was.
C7_FailureOrder ==
    /\ [](\A c \in CookieValues, id \in PostIds :
             /\ \A t \in Titles, b \in Contents :
                   LET done == update_post(c, id, t, b, users, posts) IN
                   /\ done.status = C7_Expected(c, id)
                   /\ done.status \in {401, 404, 403} => done.posts = posts
             /\ LET done == delete_post(c, id, users, posts) IN
                /\ done.status = C7_Expected(c, id)
                /\ done.status \in {401, 404, 403} => done.posts = posts)
    /\ [][(resp'.op \in {"update_post", "delete_post"} /\ resp'.status \in {401, 404, 403})
          => (users' = users /\ posts' = posts)]_vars

\* C7: delete_post was answered 404 while a post is stored.
C7_Witness == resp.op = "delete_post" /\ resp.status = 404 /\ DOMAIN posts # {}

\* C8: login sets the cookie, to a token whose subject is the id of the
\* stored user with the email, exactly when that user exists and the
\* password verifies against the stored hash; otherwise it answers 401 and
\* sets no cookie.  No login step changes the store.
C8_Login ==
    /\ [](\A e \in Emails, p \in Passwords :
             LET done == login(e, p, users) IN
             IF \E i \in 1..Len(users) :
                   users[i].email = e /\ users[i].hashed_password.digest_of = p
             THEN /\ done.status = 200
                  /\ ValidSession(done.set_cookie)
                  /\ users[SessionUser(done.set_cookie)].email = e
             ELSE /\ done.status = 401
                  /\ done.set_cookie = NoCookie)
    /\ [][resp'.op = "login" => users' = users /\ posts' = posts]_vars

\* C8: the second user has logged in.
C8_Witness == resp.op = "login" /\ resp.status = 200 /\ resp.set_cookie.sub = str(2)

\* C9: a token login has set for user U resolves to U in every later state,
\* and with it U still creates posts and updates and deletes U's posts;
\* logout changes nothing on the server.
C9_TokenNeverExpires ==
    /\ [](\A g \in issued :
             /\ get_current_user(g.token, users) = [status |-> 200, user |-> g.user]
             /\ \A t \in Titles, b \in Contents :
                   LET done == create_post(g.token, t, b, users, posts) IN
                   done.status = 200 /\ done.posts[next_post_id(posts)].owner_id = g.user
             /\ \A id \in DOMAIN posts, t \in Titles, b \in Contents :
                   posts[id].owner_id = g.user
                   => /\ update_post(g.token, id, t, b, users, posts).status = 200
                      /\ delete_post(g.token, id, users, posts).status = 200)
    /\ [][issued \subseteq issued']_vars
    /\ [][resp'.op = "logout" => UNCHANGED <<users, posts, thr, issued>>]_vars

\* C9: logout has been answered while a token is out and its user has a post.
C9_Witness ==
    /\ resp.op = "logout"
    /\ \E g \in issued : \E id \in DOMAIN posts : posts[id].owner_id = g.user

\* C10: when an update_post commits while another update_post request has
\* read the same post and will write another value to a column it writes,
\* it is answered 200 and the other request's commit would be answered 200
\* and replace what it wrote; and when that other request commits, it is
\* answered 200 and its values are stored.
C10_LostUpdate ==
    /\ [][\A w, v \in Threads :
             (update_post_commit(w) /\ post_exists(posts, thr[w].post_id)
              /\ conflicts(thr[v], thr[w]))
             => (/\ resp'.status = 200
                 /\ thr'[v].pc = "update_post"
                 /\ LET id == thr[w].post_id
                        after == flush_update(posts', thr'[v])
                    IN /\ after.status = 200
                       /\ \/ /\ thr[w].title # NoChange
                             /\ posts'[id].title = thr[w].title
                             /\ after.posts[id].title # thr[w].title
                          \/ /\ thr[w].content # NoChange
                             /\ posts'[id].content = thr[w].content
                             /\ after.posts[id].content # thr[w].content)]_vars
    /\ [][\A v \in Threads :
             (update_post_commit(v) /\ thr[v].overwrites)
             => (/\ resp'.status = 200
                 /\ resp'.lost_update
                 /\ thr[v].title # NoChange => posts'[thr[v].post_id].title = thr[v].title
                 /\ thr[v].content # NoChange
                    => posts'[thr[v].post_id].content = thr[v].content)]_vars

\* C10: both interleaved requests were answered 200 and the second
\* replaced what the first had written.
C10_Witness == resp.op = "update_post" /\ resp.status = 200 /\ resp.lost_update

=============================================================================
